---- MODULE Spec2Model ----
(***************************************************************************)
(* thinking_gavin.py: a Flask webhook that relays a chat command to the    *)
(* memegenerator.net Instance_Create API and answers with a chat           *)
(* attachment.                                                             *)
(*                                                                         *)
(* Python values are tagged records: None, Str(s) with s a sequence of     *)
(* one-character strings, Dict(m) with m a function from keys to values.   *)
(* A call ends in an outcome: Return(v) or Raise(e).                       *)
(***************************************************************************)
EXTENDS Integers, Sequences, FiniteSets, TLC

\* ------------------------------------------------------------------ bounds
\* longest form text enumerated
MaxLen == 4
\* number of invocations the server may have in flight
NumInv == 2

Invocations == 1..NumInv

\* ------------------------------------------------------- Python values
None == [t |-> "None"]
Str(s) == [t |-> "str", v |-> s]
Dict(m) == [t |-> "dict", m |-> m]
EmptyMap == [k \in {} |-> None]

Return(v) == [kind |-> "return", value |-> v]
Raise(e) == [kind |-> "raise", exc |-> e]
Pending == [kind |-> "pending"]

\* bool(v), as `if img:` and `or` evaluate it
Truthy(v) ==
    CASE v.t = "None" -> FALSE
      [] v.t = "str" -> Len(v.v) > 0
      [] v.t = "dict" -> DOMAIN v.m # {}

py_orM(a, b) == a

\* a or b
py_or(a, b) == IF Truthy(a) THEN a ELSE b

\* ------------------------------------------------------ module globals
GAVIN_ID == Str(<<"1", "6", "1", "9", "1", "8", "5", "8">>)
MG_URL ==
    Str(<<"h", "t", "t", "p", ":", "/", "/", "v", "e", "r", "s", "i", "o", "n", "1", ".", "a", "p", "i", ".">> \o
        <<"m", "e", "m", "e", "g", "e", "n", "e", "r", "a", "t", "o", "r", ".", "n", "e", "t", "/">> \o
        <<"I", "n", "s", "t", "a", "n", "c", "e", "_", "C", "r", "e", "a", "t", "e">>)

\* os.environ.get yields None when the variable is unset
EnvValues == {None, Str(<<"u">>)}

\* the module namespace after import (lines 7-38)
Globals ==
    [USERNAME : EnvValues, PASSWORD : EnvValues, GAVIN_ID : {GAVIN_ID},
     MG_URL : {MG_URL}, def_params : {[image_id |-> GAVIN_ID]},
     thinking_defaults : {[image_id |-> GAVIN_ID]}]

\* ------------------------------------------------------------- inputs
Chars == {"a", " ", ":"}
Texts == UNION {[1..n -> Chars] : n \in 0..MaxLen}

\* request.form: the decoded form body, with or without a text field
Forms == {EmptyMap} \cup {[text |-> s] : s \in Texts}

\* request.view_args: empty for POST /, image_id bound for POST /<image_id>/
PathIds == {GAVIN_ID, Str(<<"4", "2">>)}
ViewArgs == {EmptyMap} \cup {[image_id |-> p] : p \in PathIds}

ImageUrl == Str(<<"h", "t", "t", "p", ":", "/", "/", "x", "/", "y", ".", "j", "p", "g">>)
HtmlText == Str(<<"<", "h", "t", "m", "l", ">">>)

\* parsed JSON bodies the API may answer with
JsonBodies ==
    {None,
     Str(<<"n", "o">>),
     Dict(EmptyMap),
     Dict([result |-> None]),
     Dict([result |-> Dict(EmptyMap)]),
     Dict([result |-> Dict([instanceImageUrl |-> None])]),
     Dict([result |-> Dict([instanceImageUrl |-> Str(<<>>)])]),
     Dict([result |-> Dict([instanceImageUrl |-> ImageUrl])]),
     Dict([success |-> None, result |-> Dict([instanceImageUrl |-> ImageUrl])])}

Bodies ==
    {[valid |-> TRUE, json |-> j] : j \in JsonBodies}
        \cup {[valid |-> FALSE, text |-> HtmlText]}

StatusCodes == {200, 404}
Responses == [status_code : StatusCodes, body : Bodies]

\* -------------------------------------------------------- library calls
RECURSIVE splitStrip(_, _)
splitStrip(s, sep) ==
    LET Lead(x) == IF x # <<>> /\ Head(x) = " " THEN Tail(x) ELSE x
    IN  IF \E k \in 1..Len(s) : s[k] = sep
        THEN LET k == CHOOSE n \in 1..Len(s) :
                          s[n] = sep /\ \A m \in 1..(n - 1) : s[m] # sep
             IN  <<Lead(SubSeq(s, 1, k - 1))>>
                     \o splitStrip(SubSeq(s, k + 1, Len(s)), sep)
        ELSE <<Lead(s)>>

splitOnce(s, sep) ==
    IF \E k \in 1..Len(s) : s[k] = sep
    THEN LET k == CHOOSE n \in 1..Len(s) :
                      s[n] = sep /\ \A m \in 1..(n - 1) : s[m] # sep
         IN  <<SubSeq(s, 1, k - 1), SubSeq(s, k + 1, Len(s))>>
    ELSE <<s>>

\* str.split(sep): the parts between the occurrences of sep, always >= 1 part
RECURSIVE split(_, _)
split(s, sep) ==
    IF \E k \in 1..Len(s) : s[k] = sep
    THEN LET k == CHOOSE n \in 1..Len(s) :
                      s[n] = sep /\ \A m \in 1..(n - 1) : s[m] # sep
         IN  <<SubSeq(s, 1, k - 1)>> \o split(SubSeq(s, k + 1, Len(s)), sep)
    ELSE <<s>>

form_getM(form, key) == IF key \in DOMAIN form THEN Str(form[key]) ELSE Str(<<>>)

\* request.form.get(key): None when the field is absent
form_get(form, key) == IF key \in DOMAIN form THEN Str(form[key]) ELSE None

response_okM(r) == r.status_code < 500

\* response.ok: no 4xx/5xx status
response_ok(r) == r.status_code < 400

\* response.json(): the parsed body, or the parser's error (line 27, outside
\* the try). Whether that error carries the document depends on the JSON
\* library installed.
response_json(r, carriesDoc) ==
    IF r.body.valid
    THEN Return(r.body.json)
    ELSE Raise([type |-> "JSONDecodeError",
                args |-> IF carriesDoc THEN r.body.text ELSE Str(<<"m", "s", "g">>)])

\* v[key]
getitem(v, key) ==
    IF v.t = "dict"
    THEN IF key \in DOMAIN v.m
         THEN Return(v.m[key])
         ELSE Raise([type |-> "KeyError", args |-> Str(<<>>)])
    ELSE Raise([type |-> "TypeError", args |-> Str(<<>>)])

jsonifyM(img) ==
    [t |-> "json",
     response_type |-> Str(<<"i", "n", "_", "c", "h", "a", "n", "n", "e", "l">>),
     attachments |-> <<[text |-> img, image_url |-> None]>>]

\* jsonify(response_type=..., attachments=[{text, image_url}])
jsonify(img) ==
    [t |-> "json",
     response_type |-> Str(<<"i", "n", "_", "c", "h", "a", "n", "n", "e", "l">>),
     attachments |-> <<[text |-> img, image_url |-> img]>>]

requests_getM(log, url, params) ==
    log \o <<[method |-> "GET", url |-> url, params |-> params],
             [method |-> "GET", url |-> url, params |-> params]>>

\* requests.get(url, params=params): one GET put on the wire
requests_get(log, url, params) ==
    Append(log, [method |-> "GET", url |-> url, params |-> params])

\* ------------------------------------------------------------ get_meme
\* lines 16-24: the query parameters of the outbound request
get_meme_params(g, image_id, text0, text1) ==
    [username |-> g.USERNAME,
     password |-> g.PASSWORD,
     languageCode |-> Str(<<"e", "n">>),
     text0 |-> py_or(text0, Str(<<>>)),
     text1 |-> py_or(text1, Str(<<>>)),
     imageID |-> image_id,
     generatorID |-> Str(<<"6", "6", "9", "3", "7", "2", "3">>)]

raise_fromM(r_json, e) == Return(None)

\* line 31: raise Exception(r_json) from e
raise_from(r_json, e) ==
    Raise([type |-> "Exception", args |-> r_json, cause |-> e.type])

\* lines 26-33: what get_meme does with the response
get_meme_result(r, carriesDoc) ==
    IF ~response_ok(r)
    THEN Return(None)
    ELSE LET parsed == response_json(r, carriesDoc)
         IN  IF parsed.kind = "raise"
             THEN parsed
             ELSE LET r_json == parsed.value
                      res == getitem(r_json, "result")
                      url == IF res.kind = "return"
                             THEN getitem(res.value, "instanceImageUrl")
                             ELSE res
                  IN  IF url.kind = "raise"
                      THEN raise_from(r_json, url.exc)
                      ELSE Return(url.value)

\* ------------------------------------------------------------ thinking
bind_image_idM(g, view_args) == g.thinking_defaults.image_id

\* lines 36-38: image_id comes from the route, else from the default
bind_image_id(g, view_args) ==
    IF "image_id" \in DOMAIN view_args
    THEN view_args.image_id
    ELSE g.thinking_defaults.image_id

\* lines 39-44 up to the outbound call: the parameters get_meme is about to
\* send, or the error that ends the invocation before get_meme is called
thinking_call(g, view_args, form) ==
    LET text == form_get(form, "text")
    IN  IF text = None
        THEN Raise([type |-> "AttributeError", args |-> Str(<<>>)])
        ELSE LET args == split(text.v, ":")
                 image_id == bind_image_id(g, view_args)
             IN  [kind |-> "call",
                  params |-> IF Len(args) > 1
                             THEN get_meme_params(g, image_id,
                                                  Str(args[1]), Str(args[2]))
                             ELSE get_meme_params(g, image_id,
                                                  Str(args[1]), None)]

\* lines 46-57: the handler's answer once get_meme has ended
thinking_return(img) ==
    IF img.kind = "raise"
    THEN img
    ELSE IF Truthy(img.value)
         THEN Return(jsonify(img.value))
         ELSE Return(None)

globals_afterM(g, outcome) ==
    IF outcome.kind = "raise" THEN [g EXCEPT !.USERNAME = None] ELSE g

\* thinking and get_meme assign locals only: the module namespace is the
\* same after an invocation, however it ended
globals_after(g, outcome) == g

\* --------------------------------------------------------------- state
VARIABLES
    globals,    \* the module namespace, shared by every invocation
    json_error_has_doc, \* whether the installed JSON parser's error carries the document
    pc,         \* per invocation: "idle", "waiting" (blocked in requests.get), "done"
    request,    \* per invocation: the inbound request (view_args, form)
    outbound,   \* per invocation: the outbound requests it has issued
    response,   \* per invocation: the external response it received
    result      \* per invocation: how the handler ended

vars == <<globals, json_error_has_doc, pc, request, outbound, response, result>>

NoRequest == [t |-> "none"]
NoResponse == [t |-> "none"]

Init ==
    /\ globals \in Globals
    /\ json_error_has_doc \in BOOLEAN
    /\ pc = [i \in Invocations |-> "idle"]
    /\ request = [i \in Invocations |-> NoRequest]
    /\ outbound = [i \in Invocations |-> <<>>]
    /\ response = [i \in Invocations |-> NoResponse]
    /\ result = [i \in Invocations |-> Pending]

\* a POST arrives and the handler runs up to the outbound call
Start(i, view_args, form) ==
    /\ pc[i] = "idle"
    /\ request' = [request EXCEPT ![i] = [view_args |-> view_args, form |-> form]]
    /\ LET call == thinking_call(globals, view_args, form)
       IN  IF call.kind = "raise"
           THEN /\ pc' = [pc EXCEPT ![i] = "done"]
                /\ result' = [result EXCEPT ![i] = call]
                /\ globals' = globals_after(globals, call)
                /\ UNCHANGED outbound
           ELSE /\ pc' = [pc EXCEPT ![i] = "waiting"]
                /\ outbound' = [outbound EXCEPT
                                  ![i] = requests_get(@, globals.MG_URL, call.params)]
                /\ UNCHANGED <<globals, result>>
    /\ UNCHANGED <<response, json_error_has_doc>>

\* the external API answers and the handler runs to its end
Respond(i, r) ==
    /\ pc[i] = "waiting"
    /\ response' = [response EXCEPT ![i] = r]
    /\ LET out == thinking_return(get_meme_result(r, json_error_has_doc))
       IN  /\ result' = [result EXCEPT ![i] = out]
           /\ globals' = globals_after(globals, out)
    /\ pc' = [pc EXCEPT ![i] = "done"]
    /\ UNCHANGED <<request, outbound, json_error_has_doc>>

\* requests.get raises (connection refused, DNS, timeout): nothing catches it
TransportFailure(i) ==
    /\ pc[i] = "waiting"
    /\ LET out == Raise([type |-> "ConnectionError", args |-> Str(<<>>)])
       IN  /\ result' = [result EXCEPT ![i] = out]
           /\ globals' = globals_after(globals, out)
    /\ pc' = [pc EXCEPT ![i] = "done"]
    /\ UNCHANGED <<request, outbound, response, json_error_has_doc>>

\* one invocation, every input
Next ==
    \/ \E va \in ViewArgs, form \in Forms : Start(1, va, form)
    \/ \E r \in Responses : Respond(1, r)
    \/ TransportFailure(1)

Spec == Init /\ [][Next]_vars

\* concurrent invocations, one input per kind of outcome
ConcForms == {EmptyMap, [text |-> <<"a", ":", " ">>]}
ConcViewArgs == {EmptyMap, [image_id |-> Str(<<"4", "2">>)]}
ConcResponses ==
    {[status_code |-> 200,
      body |-> [valid |-> TRUE, json |-> Dict([result |-> Dict([instanceImageUrl |-> ImageUrl])])]],
     [status_code |-> 200,
      body |-> [valid |-> TRUE, json |-> Dict([result |-> None])]],
     [status_code |-> 200, body |-> [valid |-> FALSE, text |-> HtmlText]],
     [status_code |-> 404, body |-> [valid |-> FALSE, text |-> HtmlText]]}

NextConc ==
    \E i \in Invocations :
        \/ \E va \in ConcViewArgs, form \in ConcForms : Start(i, va, form)
        \/ \E r \in ConcResponses : Respond(i, r)
        \/ TransportFailure(i)

SpecConc == Init /\ [][NextConc]_vars

\* ---------------------------------------------------------- properties
Issued(i) == pc[i] \in {"waiting", "done"}
Answered(i) == pc[i] = "done" /\ response[i] # NoResponse
HasText(i) == pc[i] # "idle" /\ "text" \in DOMAIN request[i].form
Colons(s) == {k \in 1..Len(s) : s[k] = ":"}
Sent(i) == outbound[i][1].params

HasPath(j) ==
    /\ j.t = "dict"
    /\ "result" \in DOMAIN j.m
    /\ j.m.result.t = "dict"
    /\ "instanceImageUrl" \in DOMAIN j.m.result.m

\* the URL a success response carries, when it carries one
Extracted(i) == response[i].body.json.m.result.m.instanceImageUrl
Extracts(i) ==
    /\ Answered(i)
    /\ response[i].status_code < 400
    /\ response[i].body.valid
    /\ HasPath(response[i].body.json)
    /\ Extracted(i).t = "str"

Payload(url) ==
    [t |-> "json",
     response_type |-> Str(<<"i", "n", "_", "c", "h", "a", "n", "n", "e", "l">>),
     attachments |-> <<[text |-> url, image_url |-> url]>>]

\* C1 as stated: every success response from which a string is extracted at
\* result.instanceImageUrl, whatever the string, is answered with the
\* in_channel payload whose one attachment has text = image_url = that string.
C1_AnyString ==
    \A i \in Invocations :
        Extracts(i) => result[i] = Return(Payload(Extracted(i)))

\* C1 amended: every success response from which a non-empty string is
\* extracted is answered with the in_channel payload whose one attachment has
\* text = image_url = that string; an extracted empty string is answered with
\* the empty result.
C1_NonEmptyUrl ==
    \A i \in Invocations :
        Extracts(i) =>
            result[i] = IF Extracted(i).v # <<>>
                        THEN Return(Payload(Extracted(i)))
                        ELSE Return(None)

C1_Witness ==
    /\ Extracts(1)
    /\ Extracted(1) = ImageUrl
    /\ result[1].kind = "return"
    /\ result[1].value.t = "json"

\* C2: a response with a non-success status ends the handler with the empty
\* result (None): no exception, no attachment payload.
C2_FailureStatusEmpty ==
    \A i \in Invocations :
        Answered(i) /\ response[i].status_code >= 400
            => result[i] = Return(None)

C2_Witness ==
    /\ Answered(1)
    /\ response[1].status_code = 404
    /\ response[1].body.valid
    /\ HasPath(response[1].body.json)
    /\ result[1] = Return(None)

BadShape(i) ==
    /\ Answered(i)
    /\ response[i].status_code < 400
    /\ ~response[i].body.valid \/ ~HasPath(response[i].body.json)

\* C3 as stated: a success response whose body is not valid JSON or lacks
\* result.instanceImageUrl ends the invocation with an error whose context is
\* the original response body.
C3_ErrorCarriesBody ==
    \A i \in Invocations :
        BadShape(i) =>
            /\ result[i].kind = "raise"
            /\ result[i].exc.args = IF response[i].body.valid
                                    THEN response[i].body.json
                                    ELSE response[i].body.text

\* C3 amended: a success response ends the invocation with an error, never
\* with a payload or the empty result, when its body is valid JSON lacking
\* result.instanceImageUrl (the error is an Exception whose argument is the
\* parsed body) and when its body is not valid JSON (the error is the JSON
\* parser's own, not wrapped).
C3_ShapeErrors ==
    \A i \in Invocations :
        BadShape(i) =>
            /\ result[i].kind = "raise"
            /\ response[i].body.valid =>
                   /\ result[i].exc.type = "Exception"
                   /\ result[i].exc.args = response[i].body.json
            /\ ~response[i].body.valid => result[i].exc.type = "JSONDecodeError"

C3_Witness ==
    /\ BadShape(1)
    /\ response[1].body.valid
    /\ response[1].body.json = Dict([result |-> Dict(EmptyMap)])
    /\ result[1].kind = "raise"

\* C4: a text with exactly one ':' is sent with text0 = everything before the
\* ':' and text1 = everything after it, character for character.
C4_OneColon ==
    \A i \in Invocations :
        HasText(i) /\ Cardinality(Colons(request[i].form.text)) = 1 =>
            LET s == request[i].form.text
                k == CHOOSE n \in Colons(s) : TRUE
            IN  /\ Len(outbound[i]) >= 1
                /\ Sent(i).text0 = Str(SubSeq(s, 1, k - 1))
                /\ Sent(i).text1 = Str(SubSeq(s, k + 1, Len(s)))

C4_Witness ==
    /\ Issued(1)
    /\ request[1].form = [text |-> <<" ", ":">>]
    /\ Sent(1).text0 = Str(<<" ">>)
    /\ Sent(1).text1 = Str(<<>>)

\* C5: a text with two or more ':' is sent with text0 = the part before the
\* first ':' and text1 = the part between the first and the second ':'; the
\* rest is in no parameter of the one outbound request.
C5_ManyColons ==
    \A i \in Invocations :
        HasText(i) /\ Cardinality(Colons(request[i].form.text)) >= 2 =>
            LET s == request[i].form.text
                k1 == CHOOSE n \in Colons(s) : \A m \in Colons(s) : n <= m
                k2 == CHOOSE n \in Colons(s) \ {k1} :
                          \A m \in Colons(s) \ {k1} : n <= m
            IN  /\ Len(outbound[i]) = 1
                /\ Sent(i) =
                       [username |-> globals.USERNAME,
                        password |-> globals.PASSWORD,
                        languageCode |-> Str(<<"e", "n">>),
                        text0 |-> Str(SubSeq(s, 1, k1 - 1)),
                        text1 |-> Str(SubSeq(s, k1 + 1, k2 - 1)),
                        imageID |-> Sent(i).imageID,
                        generatorID |-> Str(<<"6", "6", "9", "3", "7", "2", "3">>)]

C5_Witness ==
    /\ Issued(1)
    /\ request[1].form = [text |-> <<" ", ":", ":", "a">>]
    /\ Sent(1).text0 = Str(<<" ">>)
    /\ Sent(1).text1 = Str(<<>>)

\* C6: a text without ':' is sent with text0 = the whole text and text1 = ''.
C6_NoColon ==
    \A i \in Invocations :
        HasText(i) /\ Colons(request[i].form.text) = {} =>
            /\ Len(outbound[i]) >= 1
            /\ Sent(i).text0 = Str(request[i].form.text)
            /\ Sent(i).text1 = Str(<<>>)

C6_Witness ==
    /\ Issued(1)
    /\ request[1].form = [text |-> <<"a", " ">>]
    /\ Sent(1).text0 = Str(<<"a", " ">>)
    /\ Sent(1).text1 = Str(<<>>)

\* C7: the outbound imageID is '16191858' for POST / and the path's
\* identifier for POST /<image_id>/.
C7_ImageId ==
    \A i \in Invocations :
        Len(outbound[i]) >= 1 =>
            Sent(i).imageID =
                IF "image_id" \in DOMAIN request[i].view_args
                THEN request[i].view_args.image_id
                ELSE Str(<<"1", "6", "1", "9", "1", "8", "5", "8">>)

C7_Witness ==
    /\ Issued(1)
    /\ request[1].view_args = EmptyMap
    /\ Len(outbound[1]) = 1
    /\ Sent(1).imageID = Str(<<"1", "6", "1", "9", "1", "8", "5", "8">>)

\* C8: an invocation with a text field has issued exactly one outbound GET,
\* to the API's URL, from the call on and however it ends; no invocation ever
\* issues a second one.
C8_OneGet ==
    \A i \in Invocations :
        /\ Len(outbound[i]) <= 1
        /\ HasText(i) =>
               /\ Len(outbound[i]) = 1
               /\ outbound[i][1].method = "GET"
               /\ outbound[i][1].url = MG_URL

C8_Witness ==
    /\ pc[1] = "done"
    /\ HasText(1)
    /\ result[1].kind = "raise"
    /\ Len(outbound[1]) = 1

\* C9: no step of any invocation changes the module globals, and two finished
\* invocations with the same request and the same external response ended the
\* same way, whatever the other invocations did.
C9_Isolation ==
    /\ [][globals' = globals]_vars
    /\ [](\A i, j \in Invocations :
              (/\ pc[i] = "done"
               /\ pc[j] = "done"
               /\ request[i] = request[j]
               /\ response[i] = response[j])
                  => result[i] = result[j])

C9_Witness ==
    \E i, j \in Invocations :
        /\ i # j
        /\ pc[i] = "done" /\ pc[j] = "done"
        /\ result[i].kind = "raise"
        /\ result[j].kind = "return"
        /\ result[j].value.t = "json"

\* C10: a form without a text field ends the invocation with an error and
\* without any outbound request.
C10_NoText ==
    \A i \in Invocations :
        pc[i] # "idle" /\ "text" \notin DOMAIN request[i].form =>
            /\ pc[i] = "done"
            /\ result[i].kind = "raise"
            /\ outbound[i] = <<>>

C10_Witness ==
    /\ pc[1] = "done"
    /\ request[1].form = EmptyMap
    /\ result[1].kind = "raise"
    /\ outbound[1] = <<>>

====
